---- MODULE Spec2Model ----
(***************************************************************************)
(* The tarball-backed image of imgutil (package tarball): an Image that    *)
(* wraps a registry-backed remote.Image and whose Save serialises it into  *)
(* a tar file at tarballPath, either through go-containerregistry's        *)
(* tarball.WriteToFile (Docker layout) or by hand (OCI image layout).      *)
(*                                                                         *)
(* Byte strings (JSON documents, tar streams, file contents, names) are     *)
(* sequences of tokens, and a token is a natural number: T(s) for a string *)
(* s of the Vocabulary, N(n) for the number n, and X(h) for the hex form   *)
(* of a sha256 sum h.                                                      *)
(***************************************************************************)
EXTENDS Naturals, Sequences, FiniteSets, TLC

VARIABLES
    img,        \* the wrapped remote.Image (Image.baseImage), in memory
    layoutImpl, \* Image.layoutImpl
    tarFile,    \* the file at Image.tarballPath
    registry,   \* what the image name resolved to when the image was opened
    now,        \* the wall clock
    lastOp,     \* the last call on the Image and what it returned
    saves       \* the successful Saves since the image was last mutated

vars == <<img, layoutImpl, tarFile, registry, now, lastOp, saves>>

-----------------------------------------------------------------------------
(* Bounds of the model.                                                    *)

\* The clock stops ticking here.
MaxTime == 3
\* AddLayer is not called on an image that already has this many layers.
MaxLayers == 2

-----------------------------------------------------------------------------
(* Program constants.                                                      *)

OCIImageLayout == 0
DockerImageLayout == 1
\* 0644
FileMode == 420

\* The media types of go-containerregistry's pkg/v1/types used by the code.
OCIConfigJSON == "application/vnd.oci.image.config.v1+json"
OCIManifestSchema1 == "application/vnd.oci.image.manifest.v1+json"
DockerLayer == "application/vnd.docker.image.rootfs.diff.tar.gzip"

\* The image name the Image is constructed with, and the names Save is given.
RepoName == "localhost:5000/pack-image-test"
AdditionalNameSets == { <<>>, <<"localhost:5000/other-name">> }

\* The label keys and values of the calls; Go's json.Marshal writes a map's
\* keys sorted.
Keys == {"mykey", "other"}
KeyOrder == <<"mykey", "other">>
Values == {"new-val"}

\* The tar files AddLayer is given.
Paths == {"layer-1.tar", "layer-2.tar"}

-----------------------------------------------------------------------------
(* Tokens.                                                                 *)

Vocabulary ==
    << "", "{", "}", "[{", "}]", "architecture", "created", "os", "os.version",
       "rootfs", "Labels", "schemaVersion", "config", "layers", "manifests",
       "Config", "RepoTags", "Layers", "amd64", "linux", "myvalue", "data",
       "mykey", "other", "new-val", "layer-1.tar", "layer-2.tar", "tar", "EOF",
       "busybox", "1f8b", "blobs", "sha256", "sha256:", ".tar.gz", ":latest",
       "index.json", "manifest.json", "oci-layout", "true", "false",
       "localhost:5000/pack-image-test", "localhost:5000/other-name",
       "localhost:5000/pack-newbase-test", "newbase", "Env", "Entrypoint", "Cmd",
       "WorkingDir", "MY_VAR", "my_val", "=", "some", "entrypoint", "cmd", "/workdir",
       "application/vnd.oci.image.config.v1+json",
       "application/vnd.oci.image.manifest.v1+json",
       "application/vnd.docker.image.rootfs.diff.tar.gzip" >>

TokenOf ==
    [ s \in {Vocabulary[i] : i \in 1..Len(Vocabulary)} |->
        CHOOSE i \in 1..Len(Vocabulary) : Vocabulary[i] = s ]

T(s) == TokenOf[s]
N(n) == 100 + n
X(h) == 1000 + h

\* The number a number token stands for.
NumberOf(token) == token - 100

-----------------------------------------------------------------------------
(* Hashes, layers and the wrapped image's config.                          *)

\* sha256.Sum256(data), as a number below a large prime.
RECURSIVE Sum(_, _, _)
Sum(data, i, h) ==
    IF i > Len(data) THEN h
    ELSE Sum(data, i + 1, (h * 31 + data[i]) % 999983)

Sum256(data) == Sum(data, 1, 7)

\* fmt.Sprintf("%x", sha256.Sum256(data))
Sum256Hex(data) == X(Sum256(data))

Hash(data) == [Algorithm |-> "sha256", Hex |-> Sum256Hex(data)]

\* gzip of a tar stream: the magic number, then the stream.
Gzip(tar) == << T("1f8b") >> \o tar

\* A layer handle is the tar stream it stands for and its media type.
DiffID(layer) == Hash(layer.tar)
Compressed(layer) == Gzip(layer.tar)
Uncompressed(layer) == layer.tar
Digest(layer) == Hash(Compressed(layer))
Size(layer) == Len(Compressed(layer))
MediaType(layer) == layer.mediaType

\* tarball.LayerFromFile(path): a single-file tar, as the tests build it.
LayerFromFile(path) ==
    [tar |-> << T("tar"), T(path), T("EOF") >>, mediaType |-> DockerLayer]

\* The layer of the image that exists in the registry.
BaseLayer == [tar |-> << T("tar"), T("busybox") >>, mediaType |-> DockerLayer]

\* The image opened when the name does not resolve (scratch mode).
ScratchImage ==
    [ name   |-> RepoName,
      found  |-> FALSE,
      config |-> [ architecture |-> "amd64", os |-> "linux", osVersion |-> "",
                   created |-> 0, labels |-> <<>>, env |-> <<>>,
                   entrypoint |-> <<>>, cmd |-> <<>>, workingDir |-> "",
                   diffIDs |-> <<>> ],
      layers |-> <<>> ]

\* The image opened when the name resolves.
ExistingImage ==
    [ name   |-> RepoName,
      found  |-> TRUE,
      config |-> [ architecture |-> "amd64", os |-> "linux", osVersion |-> "",
                   created |-> 1,
                   labels |-> [k \in Keys |-> IF k = "mykey" THEN "myvalue" ELSE "data"],
                   env |-> <<>>, entrypoint |-> <<>>, cmd |-> <<>>, workingDir |-> "",
                   diffIDs |-> << DiffID(BaseLayer) >> ],
      layers |-> << BaseLayer >> ]

-----------------------------------------------------------------------------
(* JSON.                                                                   *)

RECURSIVE MarshalLabels(_, _)
MarshalLabels(labels, i) ==
    IF i > Len(KeyOrder) THEN <<>>
    ELSE (IF KeyOrder[i] \in DOMAIN labels
          THEN << T(KeyOrder[i]), T(labels[KeyOrder[i]]) >>
          ELSE <<>>) \o MarshalLabels(labels, i + 1)

MarshalStrings(strings) == [i \in 1..Len(strings) |-> T(strings[i])]

\* The KEY=VALUE entries of Env, each as three strings.
RECURSIVE Flatten(_)
Flatten(env) ==
    IF env = <<>> THEN <<>>
    ELSE << Head(env).key, "=", Head(env).value >> \o Flatten(Tail(env))

\* json.Marshal of a v1.ConfigFile.
MarshalConfig(config) ==
    << T("{"), T("architecture"), T(config.architecture),
       T("created"), N(config.created),
       T("os"), T(config.os), T("os.version"), T(config.osVersion),
       T("rootfs"), N(Len(config.diffIDs)) >>
    \o [i \in 1..Len(config.diffIDs) |-> config.diffIDs[i].Hex]
    \o << T("Labels") >> \o MarshalLabels(config.labels, 1)
    \o << T("Env") >> \o MarshalStrings(Flatten(config.env))
    \o << T("Entrypoint") >> \o MarshalStrings(config.entrypoint)
    \o << T("Cmd") >> \o MarshalStrings(config.cmd)
    \o << T("WorkingDir"), T(config.workingDir), T("}") >>

\* The "created" of a marshalled config.
CreatedOf(rawConfig) == NumberOf(rawConfig[5])

\* json.Marshal of a v1.Descriptor: five tokens.
MarshalDescriptor(d) ==
    << T("{"), T(d.MediaType), N(d.Size), d.Digest.Hex, T("}") >>

RECURSIVE MarshalDescriptors(_)
MarshalDescriptors(ds) ==
    IF ds = <<>> THEN <<>>
    ELSE MarshalDescriptor(Head(ds)) \o MarshalDescriptors(Tail(ds))

\* json.Marshal of a v1.Manifest.
MarshalManifest(m) ==
    << T("{"), T("schemaVersion"), N(m.SchemaVersion), T("config") >>
    \o MarshalDescriptor(m.Config)
    \o << T("layers") >> \o MarshalDescriptors(m.Layers) \o << T("}") >>

\* json.Marshal of a v1.IndexManifest.
MarshalIndexManifest(m) ==
    << T("{"), T("schemaVersion"), N(m.SchemaVersion), T("manifests") >>
    \o MarshalDescriptors(m.Manifests) \o << T("}") >>

\* The inverse of MarshalDescriptor, and the descriptors a marshalled list holds.
UnmarshalDescriptor(raw) ==
    [ MediaType |-> Vocabulary[raw[2]], Size |-> NumberOf(raw[3]),
      Digest |-> [Algorithm |-> "sha256", Hex |-> raw[4]] ]

UnmarshalDescriptors(raw) ==
    [ i \in 1..(Len(raw) \div 5) |->
        UnmarshalDescriptor(SubSeq(raw, 5 * (i - 1) + 1, 5 * i)) ]

ManifestConfig(rawManifest) == UnmarshalDescriptor(SubSeq(rawManifest, 5, 9))
ManifestLayers(rawManifest) ==
    UnmarshalDescriptors(SubSeq(rawManifest, 11, Len(rawManifest) - 1))
IndexManifests(rawIndex) ==
    UnmarshalDescriptors(SubSeq(rawIndex, 5, Len(rawIndex) - 1))

-----------------------------------------------------------------------------
(* The wrapped remote.Image.                                               *)

Result(image, val, err) == [image |-> image, val |-> val, err |-> err]

RemoteName(image) == Result(image, << T(image.name) >>, "")

RemoteSetLabel(image, key, value) ==
    Result([image EXCEPT !.config.labels =
                [k \in (DOMAIN image.config.labels) \cup {key} |->
                    IF k = key THEN value ELSE image.config.labels[k]]],
           <<>>, "")

RemoteAddLayer(image, path) ==
    LET layer == LayerFromFile(path) IN
    Result([image EXCEPT !.layers = Append(@, layer),
                         !.config.diffIDs = Append(@, DiffID(layer))],
           <<>>, "")

RemoteGetLayer(image, diffID) ==
    LET found == {i \in 1..Len(image.layers) : DiffID(image.layers[i]).Hex = diffID} IN
    IF found = {}
    THEN Result(image, <<>>, "layer not found")
    ELSE Result(image, Uncompressed(image.layers[CHOOSE i \in found : TRUE]), "")

RemoteOS(image) == Result(image, << T(image.config.os) >>, "")
RemoteOSVersion(image) == Result(image, << T(image.config.osVersion) >>, "")
RemoteArchitecture(image) ==
    Result(image, << T(image.config.architecture) >>, "")

\* Label: the image must exist; a missing key gives the empty string.
RemoteLabel(image, key) ==
    IF ~image.found
    THEN Result(image, << T("") >>, "image does not exist")
    ELSE IF key \in DOMAIN image.config.labels
         THEN Result(image, << T(image.config.labels[key]) >>, "")
         ELSE Result(image, << T("") >>, "")

EnvIndex(env, key) == {i \in 1..Len(env) : env[i].key = key}
Lowest(indices) == CHOOSE i \in indices : \A j \in indices : i <= j

\* Env: the value of the first KEY= entry, or the empty string.
RemoteEnv(image, key) ==
    LET at == EnvIndex(image.config.env, key) IN
    IF at = {}
    THEN Result(image, << T("") >>, "")
    ELSE Result(image, << T(image.config.env[Lowest(at)].value) >>, "")

\* SetEnv: replaces the entry of the key in place, or appends one.
RemoteSetEnv(image, key, value) ==
    LET env == image.config.env
        at  == EnvIndex(env, key)
        entry == [key |-> key, value |-> value] IN
    Result([image EXCEPT !.config.env =
                IF at = {} THEN Append(env, entry)
                ELSE [env EXCEPT ![Lowest(at)] = entry]],
           <<>>, "")

RemoteSetEntrypoint(image, ep) ==
    Result([image EXCEPT !.config.entrypoint = ep], <<>>, "")
RemoteSetCmd(image, cmd) ==
    Result([image EXCEPT !.config.cmd = cmd], <<>>, "")
RemoteSetWorkingDir(image, dir) ==
    Result([image EXCEPT !.config.workingDir = dir], <<>>, "")

RemoteRename(image, name) == Result([image EXCEPT !.name = name], <<>>, "")

\* CreatedAt: the created time of the configuration the image was opened with.
RemoteCreatedAt(image, backend) == Result(image, << N(backend.created) >>, "")

\* TopLayer: the last diff id, or an error when there is no layer.
RemoteTopLayer(image) ==
    LET ids == image.config.diffIDs IN
    IF ids = <<>>
    THEN Result(image, <<>>, "empty stack")
    ELSE Result(image, << ids[Len(ids)].Hex >>, "")

RemoteFound(image, backend) ==
    Result(image, << IF backend.found THEN T("true") ELSE T("false") >>, "")

RemoteDelete(image) == Result(image, <<>>, "")

\* AddLayerWithDiffID: as AddLayer, with the diff id the caller gives.
RemoteAddLayerWithDiffID(image, path, diffID) ==
    LET layer == LayerFromFile(path) IN
    Result([image EXCEPT !.layers = Append(@, layer),
                         !.config.diffIDs =
                             Append(@, [Algorithm |-> "sha256", Hex |-> diffID])],
           <<>>, "")

\* The image a ReuseLayer takes layers from: the one the name resolved to.
PreviousImage == ExistingImage

\* The errors of ReuseLayer; the name, and the diff id, follow in quotes.
PreviousImageUnreachable == "failed to get layers for previous image with repo name"
LayerNotInPreviousImage == "previous image did not have layer with sha"

RemoteReuseLayer(image, diffID) ==
    LET prev  == PreviousImage.layers
        found == {i \in 1..Len(prev) : DiffID(prev[i]).Hex = diffID} IN
    IF ~image.found
    THEN Result(image, <<>>, PreviousImageUnreachable)
    ELSE IF found = {}
    THEN Result(image, <<>>, LayerNotInPreviousImage)
    ELSE Result([image EXCEPT !.layers = Append(@, prev[Lowest(found)]),
                              !.config.diffIDs = Append(@, DiffID(prev[Lowest(found)]))],
                <<>>, "")

\* The image a Rebase puts under the layers above the old top layer.
NewBaseLayer == [tar |-> << T("tar"), T("newbase") >>, mediaType |-> DockerLayer]
NewBaseImage ==
    [ name   |-> "localhost:5000/pack-newbase-test",
      found  |-> TRUE,
      config |-> [ architecture |-> "amd64", os |-> "linux", osVersion |-> "",
                   created |-> 1, labels |-> <<>>, env |-> <<>>,
                   entrypoint |-> <<>>, cmd |-> <<>>, workingDir |-> "",
                   diffIDs |-> << DiffID(NewBaseLayer) >> ],
      layers |-> << NewBaseLayer >> ]

RemoteRebase(image, oldTop, newBase) ==
    LET at == {k \in 1..Len(image.layers) : DiffID(image.layers[k]).Hex = oldTop} IN
    IF at = {}
    THEN Result(image, <<>>, "old top layer not in image")
    ELSE LET k   == Lowest(at)
             top == SubSeq(image.layers, k + 1, Len(image.layers)) IN
         Result([image EXCEPT
                    !.layers = newBase.layers \o top,
                    !.config.diffIDs = newBase.config.diffIDs
                                       \o [i \in 1..Len(top) |-> DiffID(top[i])],
                    !.config.os = newBase.config.os,
                    !.config.architecture = newBase.config.architecture,
                    !.config.osVersion = newBase.config.osVersion],
                <<>>, "")

ConfigFile(image) == image.config
Layers(image) == image.layers
CopyOfV1Image(image) == [config |-> image.config, layers |-> image.layers]

-----------------------------------------------------------------------------
(* The file at tarballPath and archive/tar's writer.                       *)

\* No file at tarballPath.
NoFile == [exists |-> FALSE, entries |-> <<>>, closed |-> FALSE]

\* os.Create: the file exists and is empty.
Create == [exists |-> TRUE, entries |-> <<>>, closed |-> FALSE]

\* The steps of Save that can return an error; fail names the one that does
\* in a call (NoFail: none), and the error it returns is "error".  layer is the index of the layer for a step of
\* the loop over the layers, and 0 otherwise.
NoFail == [step |-> "", layer |-> 0]
Fails(fail, step, layer) == fail.step = step /\ fail.layer = layer

Written(entries, err) == [entries |-> entries, err |-> err]

\* tar.Writer.WriteHeader: an error while the entry before it is short of its
\* size, and otherwise a new entry with no content yet.
WriteHeader(entries, hdr, ioError) ==
    IF ioError THEN Written(entries, "error")
    ELSE IF entries # <<>>
            /\ Len(entries[Len(entries)].Content) < entries[Len(entries)].Size
    THEN Written(entries, "archive/tar: missed writing bytes")
    ELSE Written(Append(entries, [Name |-> hdr.Name, Mode |-> hdr.Mode,
                                  Size |-> hdr.Size, Content |-> <<>>]), "")

\* tar.Writer.Write: the bytes go to the last entry, up to its size.
Write(entries, data, ioError) ==
    IF ioError THEN Written(entries, "error")
    ELSE LET n == Len(entries)
             room == entries[n].Size - Len(entries[n].Content)
         IN  IF Len(data) > room
             THEN Written([entries EXCEPT ![n].Content = @ \o SubSeq(data, 1, room)],
                          "archive/tar: write too long")
             ELSE Written([entries EXCEPT ![n].Content = @ \o data], "")

\* Write after a WriteHeader that returned h: nothing when it failed.
WriteAfter(h, data, ioError) ==
    IF h.err # "" THEN h ELSE Write(h.entries, data, ioError)

\* WriteHeader, then Write when it succeeded.
WriteEntry(entries, hdr, data, headerFails, writeFails) ==
    WriteAfter(WriteHeader(entries, hdr, headerFails), data, writeFails)

\* tar.Writer.Close.
Close(entries, ioError) ==
    IF ioError THEN "error"
    ELSE IF entries # <<>>
            /\ Len(entries[Len(entries)].Content) < entries[Len(entries)].Size
    THEN "archive/tar: missed writing bytes"
    ELSE ""

\* fmt.Sprintf("blobs/sha256/%x", sum)
BlobName(hex) == << T("blobs"), T("sha256"), hex >>

NoDescriptor == [MediaType |-> "", Size |-> 0, Digest |-> [Algorithm |-> "", Hex |-> 0]]

-----------------------------------------------------------------------------
(* Save with the OCI image layout.                                         *)

Wrote(entries, desc, err) == [entries |-> entries, desc |-> desc, err |-> err]

\* writeConfigFileToTarball, were it to stamp the config with the time of the
\* Save (Save's "TODO: add the CreatedAt info").
writeConfigFileStamped(image, entries, fail) ==
    LET rawConfig    == MarshalConfig([ConfigFile(image) EXCEPT !.created = now])
        configDigest == Sum256Hex(rawConfig)
        hdr == [Name |-> BlobName(configDigest), Mode |-> FileMode, Size |-> Len(rawConfig)]
        w   == WriteEntry(entries, hdr, rawConfig, FALSE, FALSE)
    IN  Wrote(w.entries,
              [ MediaType |-> OCIConfigJSON,
                Digest    |-> [Algorithm |-> "sha256", Hex |-> configDigest],
                Size      |-> Len(rawConfig) ],
              w.err)

\* What a write* function returns after its tar writes returned w: the
\* descriptor when they succeeded.
WroteBlob(w, desc) ==
    IF w.err # "" THEN Wrote(w.entries, NoDescriptor, w.err)
    ELSE Wrote(w.entries, desc, "")

\* The header and the bytes of a blob, named by the sha256 of the bytes, and
\* the descriptor of the blob.
writeBlob(entries, raw, mediaType, headerFails, writeFails) ==
    WroteBlob(WriteEntry(entries,
                         [Name |-> BlobName(Sum256Hex(raw)), Mode |-> FileMode,
                          Size |-> Len(raw)],
                         raw, headerFails, writeFails),
              [MediaType |-> mediaType, Digest |-> Hash(raw), Size |-> Len(raw)])

writeConfigFileToTarball(image, entries, fail) ==
    IF Fails(fail, "ConfigFile", 0) THEN Wrote(entries, NoDescriptor, "error")
    ELSE writeBlob(entries, MarshalConfig(ConfigFile(image)), OCIConfigJSON,
                   Fails(fail, "config.WriteHeader", 0), Fails(fail, "config.Write", 0))

\* writeLayer, were it to name the blob by the layer's diff id.
writeLayerByDiffID(layer, i, entries, fail) ==
    LET hdr == [Name |-> BlobName(DiffID(layer).Hex), Mode |-> FileMode,
                Size |-> Size(layer)]
        w   == WriteEntry(entries, hdr, Compressed(layer), FALSE, FALSE)
    IN  Wrote(w.entries,
              [MediaType |-> MediaType(layer), Size |-> Size(layer), Digest |-> Digest(layer)],
              w.err)

\* The rest of a round of the loop over the layers, after tw.WriteHeader
\* returned h: layer.Compressed and io.Copy.
copyLayer(layer, i, h, fail) ==
    IF h.err # "" THEN Wrote(h.entries, NoDescriptor, h.err)
    ELSE IF Fails(fail, "Compressed", i) THEN Wrote(h.entries, NoDescriptor, "error")
    ELSE WroteBlob(Write(h.entries, Compressed(layer), Fails(fail, "Write", i)),
                   [MediaType |-> MediaType(layer), Size |-> Size(layer),
                    Digest |-> Digest(layer)])

\* One round of the loop over the layers: the layer's descriptor and its blob.
writeLayer(layer, i, entries, fail) ==
    IF \E step \in {"MediaType", "Size", "Digest"} : Fails(fail, step, i)
    THEN Wrote(entries, NoDescriptor, "error")
    ELSE copyLayer(layer, i,
                   WriteHeader(entries,
                               [Name |-> BlobName(Digest(layer).Hex), Mode |-> FileMode,
                                Size |-> Size(layer)],
                               Fails(fail, "WriteHeader", i)),
                   fail)

\* The loop over the layers, from layer i on: the entries and the layer
\* descriptors (in desc) at its end.  w is what the round of layer i returned.
RECURSIVE writeLayers(_, _, _, _, _)
nextLayer(layers, i, w, layerDescriptors, fail) ==
    IF w.err # "" THEN Wrote(w.entries, layerDescriptors, w.err)
    ELSE writeLayers(layers, i + 1, w.entries, Append(layerDescriptors, w.desc), fail)

writeLayers(layers, i, entries, layerDescriptors, fail) ==
    IF i > Len(layers) THEN Wrote(entries, layerDescriptors, "")
    ELSE nextLayer(layers, i, writeLayer(layers[i], i, entries, fail),
                   layerDescriptors, fail)

\* writeManifestFileToTarball, were it to write the manifest blob before the
\* layer blobs.
writeManifestFileFirst(image, entries, configDescriptor, fail) ==
    LET layers   == Layers(image)
        manifest == [ SchemaVersion |-> 2, Config |-> configDescriptor,
                      Layers |-> [ i \in 1..Len(layers) |->
                                     [ MediaType |-> MediaType(layers[i]),
                                       Size      |-> Size(layers[i]),
                                       Digest    |-> Digest(layers[i]) ] ] ]
        rawManifest    == MarshalManifest(manifest)
        manifestDigest == Sum256Hex(rawManifest)
        hdr == [Name |-> BlobName(manifestDigest), Mode |-> FileMode,
                Size |-> Len(rawManifest)]
        w   == WriteEntry(entries, hdr, rawManifest, FALSE, FALSE)
        l   == writeLayers(layers, 1, w.entries, <<>>, fail)
    IN  Wrote(l.entries,
              [ MediaType |-> OCIManifestSchema1,
                Digest    |-> [Algorithm |-> "sha256", Hex |-> manifestDigest],
                Size      |-> Len(rawManifest) ],
              l.err)

\* The rest of writeManifestFileToTarball, after the loop over the layers
\* returned l: the manifest blob.
writeManifestBlob(l, configDescriptor, fail) ==
    IF l.err # "" THEN Wrote(l.entries, NoDescriptor, l.err)
    ELSE writeBlob(l.entries,
                   MarshalManifest([SchemaVersion |-> 2, Config |-> configDescriptor,
                                    Layers |-> l.desc]),
                   OCIManifestSchema1,
                   Fails(fail, "manifest.WriteHeader", 0),
                   Fails(fail, "manifest.Write", 0))

writeManifestFileToTarball(image, entries, configDescriptor, fail) ==
    IF Fails(fail, "Layers", 0) THEN Wrote(entries, NoDescriptor, "error")
    ELSE writeManifestBlob(writeLayers(Layers(image), 1, entries, <<>>, fail),
                           configDescriptor, fail)

writeIndexFileToTarball(entries, indexManifest, fail) ==
    LET rawIndexManifest == MarshalIndexManifest(indexManifest)
        hdr == [Name |-> << T("index.json") >>, Mode |-> FileMode,
                Size |-> Len(rawIndexManifest)]
    IN  WriteEntry(entries, hdr, rawIndexManifest,
                   Fails(fail, "index.WriteHeader", 0), Fails(fail, "index.Write", 0))

Saved(file, err) == [file |-> file, err |-> err]
Partial(entries) == [exists |-> TRUE, entries |-> entries, closed |-> FALSE]

\* The else branch of Save, after os.Create, from its end to its start: what
\* Save returns after tw.Close returned err, after writeIndexFileToTarball
\* returned x, after writeManifestFileToTarball returned m and after
\* writeConfigFileToTarball returned c.
closed(entries, err) ==
    IF err # "" THEN Saved(Partial(entries), err)
    ELSE Saved([exists |-> TRUE, entries |-> entries, closed |-> TRUE], "")

afterIndex(x, fail) ==
    IF x.err # "" THEN Saved(Partial(x.entries), x.err)
    ELSE closed(x.entries, Close(x.entries, Fails(fail, "Close", 0)))

afterManifest(m, fail) ==
    IF m.err # "" THEN Saved(Partial(m.entries), m.err)
    ELSE afterIndex(writeIndexFileToTarball(
                        m.entries, [SchemaVersion |-> 2, Manifests |-> << m.desc >>], fail),
                    fail)

afterConfig(image, c, fail) ==
    IF c.err # "" THEN Saved(Partial(c.entries), c.err)
    ELSE afterManifest(writeManifestFileToTarball(image, c.entries, c.desc, fail), fail)

SaveOCI(image, fail) ==
    afterConfig(image, writeConfigFileToTarball(image, <<>>, fail), fail)

-----------------------------------------------------------------------------
(* Save with the Docker layout.                                            *)

\* name.ParseReference: a name without a tag or digest gets the tag latest.
ParseReference(name) == << T(name), T(":latest") >>

RECURSIVE LayerFiles(_)
LayerFiles(layers) ==
    IF layers = <<>> THEN <<>>
    ELSE << [ Name |-> << Digest(Head(layers)).Hex, T(".tar.gz") >>, Mode |-> FileMode,
              Size |-> Size(Head(layers)), Content |-> Compressed(Head(layers)) ] >>
         \o LayerFiles(Tail(layers))

\* go-containerregistry's tarball.WriteToFile(path, ref, image): the config, the
\* layers and a manifest.json that lists {Config, RepoTags, Layers}.
WriteToFile(ref, image, ioError) ==
    IF ioError THEN Saved(Create, "error")
    ELSE
    LET rawConfig == MarshalConfig(image.config)
        cfgName   == << T("sha256:"), Sum256Hex(rawConfig) >>
        layers    == LayerFiles(image.layers)
        rawManifest ==
            << T("[{"), T("Config") >> \o cfgName \o << T("RepoTags"), N(1) >> \o ref
            \o << T("Layers") >> \o [i \in 1..Len(layers) |-> layers[i].Name[1]]
            \o << T("}]") >>
    IN  Saved([ exists  |-> TRUE,
                entries |->
                    << [ Name |-> cfgName, Mode |-> FileMode,
                         Size |-> Len(rawConfig), Content |-> rawConfig ] >>
                    \o layers
                    \o << [ Name |-> << T("manifest.json") >>, Mode |-> FileMode,
                            Size |-> Len(rawManifest), Content |-> rawManifest ] >>,
                closed  |-> TRUE ],
              "")

\* The Docker branch of Save, after os.Create.
SaveDocker(image, fail) ==
    WriteToFile(ParseReference(Vocabulary[RemoteName(image).val[1]]),
                CopyOfV1Image(image),
                Fails(fail, "WriteToFile", 0))

-----------------------------------------------------------------------------
(* Save.                                                                   *)

\* The steps at which a Save of image can fail.
FailPoints(image, layout) ==
    { [step |-> "os.Create", layer |-> 0] }
    \cup (IF layout = DockerImageLayout
          THEN { [step |-> "WriteToFile", layer |-> 0] }
          ELSE { [step |-> s, layer |-> 0] :
                    s \in { "ConfigFile", "config.WriteHeader", "config.Write", "Layers",
                            "manifest.WriteHeader", "manifest.Write",
                            "index.WriteHeader", "index.Write", "Close" } }
               \cup { [step |-> s, layer |-> i] :
                        s \in {"MediaType", "Size", "Digest", "WriteHeader",
                               "Compressed", "Write"},
                        i \in 1..Len(image.layers) })

\* What Save(additionalNames...) leaves at tarballPath and returns, when the
\* file there was file and the step fail fails.
SaveTo(image, file, layout, additionalNames, fail) ==
    IF Fails(fail, "os.Create", 0) THEN Saved(file, "error")
    ELSE IF layout = DockerImageLayout THEN SaveDocker(image, fail)
    ELSE SaveOCI(image, fail)

\* The name of the entry whose content is the serialized manifest, and the
\* canonical digest of a saved image: the digest of its serialized manifest.
ManifestEntry(file) ==
    CHOOSE i \in 1..Len(file.entries) :
        file.entries[i].Name \in { << T("index.json") >>, << T("manifest.json") >> }

CanonicalDigest(file) ==
    LET e == file.entries[ManifestEntry(file)] IN
    IF e.Name = << T("index.json") >>
    THEN IndexManifests(e.Content)[1].Digest.Hex
    ELSE Sum256Hex(e.Content)

-----------------------------------------------------------------------------
(* The calls on the tarball-backed Image.                                  *)

Returned(op, args, r) ==
    [op |-> op, args |-> args, val |-> r.val, err |-> r.err, panicked |-> FALSE]

\* A method that delegates to the wrapped image; mutates says whether it is
\* one of the mutators.
Delegate(op, args, r, mutates) ==
    /\ ~lastOp.panicked
    /\ img' = r.image
    /\ lastOp' = Returned(op, args, r)
    /\ saves' = IF mutates THEN <<>> ELSE saves
    /\ UNCHANGED <<layoutImpl, tarFile, registry, now>>

\* panic("not implemented"): the program ends.
NotImplemented(op, args) ==
    /\ ~lastOp.panicked
    /\ lastOp' = [op |-> op, args |-> args, val |-> <<>>, err |-> "", panicked |-> TRUE]
    /\ UNCHANGED <<img, layoutImpl, tarFile, registry, now, saves>>

Name == Delegate("Name", <<>>, RemoteName(img), FALSE)

Rename(name) == NotImplemented("Rename", << T(name) >>)

Label(key) == NotImplemented("Label", << T(key) >>)

Env(key) == NotImplemented("Env", << T(key) >>)

SetEnv(key, value) == NotImplemented("SetEnv", << T(key), T(value) >>)

SetEntrypoint(ep) == NotImplemented("SetEntrypoint", MarshalStrings(ep))

SetWorkingDir(dir) == NotImplemented("SetWorkingDir", << T(dir) >>)

SetCmd(cmd) == NotImplemented("SetCmd", MarshalStrings(cmd))

Rebase(oldTop, newBase) == NotImplemented("Rebase", << oldTop, T(newBase.name) >>)

AddLayerWithDiffID(path, diffID) ==
    NotImplemented("AddLayerWithDiffID", << T(path), diffID >>)

ReuseLayer(diffID) == NotImplemented("ReuseLayer", << diffID >>)

TopLayer == NotImplemented("TopLayer", <<>>)

Found == NotImplemented("Found", <<>>)

GetLayer(diffID) == Delegate("GetLayer", << diffID >>, RemoteGetLayer(img, diffID), FALSE)

Delete == NotImplemented("Delete", <<>>)

CreatedAt == NotImplemented("CreatedAt", <<>>)

Identifier == NotImplemented("Identifier", <<>>)

OS == Delegate("OS", <<>>, RemoteOS(img), FALSE)

OSVersion == Delegate("OSVersion", <<>>, RemoteOSVersion(img), FALSE)

Architecture == Delegate("Architecture", <<>>, RemoteArchitecture(img), FALSE)

SetLabel(key, value) ==
    Delegate("SetLabel", << T(key), T(value) >>, RemoteSetLabel(img, key, value), TRUE)

\* AddLayer, were it to append the layer and leave rootfs.diff_ids as it was.
AddLayerWithoutDiffID(path) ==
    /\ Len(img.layers) < MaxLayers
    /\ Delegate("AddLayer", << T(path) >>,
                Result([img EXCEPT !.layers = Append(@, LayerFromFile(path))], <<>>, ""),
                TRUE)

AddLayer(path) ==
    /\ Len(img.layers) < MaxLayers
    /\ Delegate("AddLayer", << T(path) >>, RemoteAddLayer(img, path), TRUE)

\* Save returns: s is what it left at tarballPath and its error.
SaveReturns(additionalNames, s) ==
    /\ tarFile' = s.file
    /\ lastOp' = [op |-> "Save", args |-> MarshalStrings(additionalNames),
                  val |-> <<>>, err |-> s.err, panicked |-> FALSE]
    /\ saves' = IF s.err = ""
                THEN (IF saves = <<>> THEN <<>> ELSE << saves[Len(saves)] >>)
                     \o << [digest |-> CanonicalDigest(s.file), at |-> now] >>
                ELSE saves

\* Save, were it to set the created time on the wrapped image itself.
SaveStampingImage(additionalNames, fail) ==
    /\ ~lastOp.panicked
    /\ fail \in FailPoints(img, layoutImpl) \cup {NoFail}
    /\ SaveReturns(additionalNames, SaveTo(img, tarFile, layoutImpl, additionalNames, fail))
    /\ img' = [img EXCEPT !.config.created = now]
    /\ UNCHANGED <<layoutImpl, registry, now>>

Save(additionalNames, fail) ==
    /\ ~lastOp.panicked
    /\ fail \in FailPoints(img, layoutImpl) \cup {NoFail}
    /\ SaveReturns(additionalNames, SaveTo(img, tarFile, layoutImpl, additionalNames, fail))
    /\ UNCHANGED <<img, layoutImpl, registry, now>>

\* Time passes.
Tick ==
    /\ now < MaxTime
    /\ now' = now + 1
    /\ UNCHANGED <<img, layoutImpl, tarFile, registry, lastOp, saves>>

-----------------------------------------------------------------------------

\* NewImage: the image is opened from the registry, or in scratch mode when
\* the name does not resolve; nothing has been called yet.
Init ==
    /\ img \in {ExistingImage, ScratchImage}
    /\ registry = [found |-> img.found, created |-> img.config.created]
    /\ layoutImpl \in {OCIImageLayout, DockerImageLayout}
    /\ tarFile = NoFile
    /\ now = 2
    /\ lastOp = [op |-> "NewImage", args |-> <<>>, val |-> <<>>, err |-> "",
                 panicked |-> FALSE]
    /\ saves = <<>>

\* The arguments the calls are made with.
DiffIDs == { DiffID(BaseLayer).Hex } \cup { DiffID(LayerFromFile(path)).Hex : path \in Paths }
EnvKeys == {"MY_VAR"}
EnvValues == {"my_val"}
Commands == { << "some", "entrypoint" >> }
Dirs == {"/workdir"}
Names == {"localhost:5000/other-name"}

\* The calls other than Save.
Call ==
    \/ Name
    \/ \E name \in Names : Rename(name)
    \/ \E key \in Keys : Label(key)
    \/ \E key \in Keys, value \in Values : SetLabel(key, value)
    \/ \E key \in EnvKeys : Env(key)
    \/ \E key \in EnvKeys, value \in EnvValues : SetEnv(key, value)
    \/ \E ep \in Commands : SetEntrypoint(ep)
    \/ \E dir \in Dirs : SetWorkingDir(dir)
    \/ \E cmd \in Commands : SetCmd(cmd)
    \/ \E oldTop \in DiffIDs : Rebase(oldTop, NewBaseImage)
    \/ \E path \in Paths : AddLayer(path)
    \/ \E path \in Paths : AddLayerWithDiffID(path, DiffID(LayerFromFile(path)).Hex)
    \/ \E diffID \in DiffIDs : ReuseLayer(diffID)
    \/ TopLayer
    \/ Found
    \/ \E diffID \in DiffIDs : GetLayer(diffID)
    \/ Delete
    \/ CreatedAt
    \/ Identifier
    \/ OS
    \/ OSVersion
    \/ Architecture

\* Every call, Save failing at any step.
Next ==
    \/ Call
    \/ \E names \in AdditionalNameSets, fail \in FailPoints(img, layoutImpl) \cup {NoFail} :
          Save(names, fail)
    \/ Tick

Spec == Init /\ [][Next]_vars

\* The write path: the mutators that delegate, the clock, and Saves that
\* return no error.
NextSave ==
    \/ \E key \in Keys, value \in Values : SetLabel(key, value)
    \/ \E path \in Paths : AddLayer(path)
    \/ \E names \in AdditionalNameSets : Save(names, NoFail)
    \/ Tick

SpecSave == Init /\ [][NextSave]_vars

\* The write path with the errors: the mutators that delegate (SetLabel with
\* one key), and Saves that fail at any step or at none.
NextSaveErrors ==
    \/ \E value \in Values : SetLabel(KeyOrder[1], value)
    \/ \E path \in Paths : AddLayer(path)
    \/ \E fail \in FailPoints(img, layoutImpl) \cup {NoFail} : Save(<<>>, fail)

SpecSaveErrors == Init /\ [][NextSaveErrors]_vars

\* The Image contract: every call, and Saves that return no error.
NextCalls ==
    \/ Call
    \/ \E names \in AdditionalNameSets : Save(names, NoFail)

SpecCalls == Init /\ [][NextCalls]_vars

-----------------------------------------------------------------------------
(* What a saved tarball holds.                                             *)

\* The last call was a Save that returned no error; the image is still the
\* one it saved.
SavedOK == lastOp.op = "Save" /\ lastOp.err = "" /\ ~lastOp.panicked
SavedOCI == SavedOK /\ layoutImpl = OCIImageLayout

EntriesNamed(file, name) ==
    {i \in 1..Len(file.entries) : file.entries[i].Name = name}

\* The content of an entry with the given name.
ContentOf(file, name) ==
    file.entries[CHOOSE i \in EntriesNamed(file, name) : TRUE].Content

\* The descriptor index.json lists first, the manifest it names, and the
\* config the manifest names, in a tarball of the OCI layout.
IndexDescriptors(file) == IndexManifests(ContentOf(file, << T("index.json") >>))
SavedManifest(file) == ContentOf(file, BlobName(IndexDescriptors(file)[1].Digest.Hex))

\* The config JSON of a saved tarball: the blob the manifest's config
\* descriptor names (OCI), or the file manifest.json's Config names (Docker).
SavedConfig(file) ==
    IF layoutImpl = OCIImageLayout
    THEN ContentOf(file, BlobName(ManifestConfig(SavedManifest(file)).Digest.Hex))
    ELSE ContentOf(file, SubSeq(ContentOf(file, << T("manifest.json") >>), 3, 4))

\* Every descriptor a saved OCI tarball holds: the one of index.json, and the
\* config and layer descriptors of the manifest.
Descriptors(file) ==
    LET m == SavedManifest(file) IN
    {IndexDescriptors(file)[i] : i \in 1..Len(IndexDescriptors(file))}
    \cup {ManifestConfig(m)}
    \cup {ManifestLayers(m)[i] : i \in 1..Len(ManifestLayers(m))}

\* The names a saved tarball records the image under: the repositories of
\* manifest.json's RepoTags (Docker), or the ref.name annotations of the
\* descriptors of index.json (OCI).
RecordedNames(file) ==
    IF layoutImpl = DockerImageLayout
    THEN LET raw == ContentOf(file, << T("manifest.json") >>) IN
         {Vocabulary[raw[6 + 2 * k - 1]] : k \in 1..NumberOf(raw[6])}
    ELSE {d.Annotations["org.opencontainers.image.ref.name"] :
             d \in {x \in Descriptors(file) : "Annotations" \in DOMAIN x}}

-----------------------------------------------------------------------------
(* C1 *)

\* C1, as stated: after a successful OCI-layout Save the entries of the
\* tarball are the config blob, then the manifest blob, then the layer blobs
\* in stack order, then index.json.
C1_ManifestBeforeLayers ==
    SavedOCI =>
        LET E == tarFile.entries
            n == Len(img.layers)
        IN  /\ Len(E) = n + 3
            /\ E[1].Content = MarshalConfig(img.config)
            /\ E[n + 3].Name = << T("index.json") >>
            /\ E[2].Name = BlobName(IndexManifests(E[n + 3].Content)[1].Digest.Hex)
            /\ \A i \in 1..n : E[2 + i].Content = Compressed(img.layers[i])

\* C1, amended: after a successful OCI-layout Save the entries of the tarball
\* are the config blob, then the layer blobs in stack order (lowest first),
\* then the manifest blob, then index.json.
C1_LayersBeforeManifest ==
    SavedOCI =>
        LET E == tarFile.entries
            n == Len(img.layers)
        IN  /\ Len(E) = n + 3
            /\ E[1].Content = MarshalConfig(img.config)
            /\ \A i \in 1..n : E[1 + i].Content = Compressed(img.layers[i])
            /\ E[n + 3].Name = << T("index.json") >>
            /\ E[n + 2].Name = BlobName(IndexManifests(E[n + 3].Content)[1].Digest.Hex)

\* A successful OCI-layout Save of an image with two different layers.
C1_Witness ==
    /\ SavedOCI
    /\ Len(img.layers) = 2
    /\ img.layers[1] # img.layers[2]

-----------------------------------------------------------------------------
(* C2 *)

\* C2: after a successful OCI-layout Save the tarball holds an oci-layout
\* entry, exactly one index.json entry that lists exactly one manifest
\* descriptor, and a blobs/sha256/<hex> entry for the config, for the
\* manifest and for every layer.
C2_OCILayout ==
    SavedOCI =>
        /\ EntriesNamed(tarFile, << T("oci-layout") >>) # {}
        /\ Cardinality(EntriesNamed(tarFile, << T("index.json") >>)) = 1
        /\ Len(IndexDescriptors(tarFile)) = 1
        /\ EntriesNamed(tarFile, BlobName(Sum256Hex(MarshalConfig(img.config)))) # {}
        /\ EntriesNamed(tarFile, BlobName(IndexDescriptors(tarFile)[1].Digest.Hex)) # {}
        /\ \A i \in 1..Len(img.layers) :
              EntriesNamed(tarFile, BlobName(Digest(img.layers[i]).Hex)) # {}

-----------------------------------------------------------------------------
(* C3 *)

\* C3: in the tarball a successful OCI-layout Save writes no two entries have
\* the same path.
C3_NoDuplicatePaths ==
    SavedOCI =>
        \A i, j \in 1..Len(tarFile.entries) :
            tarFile.entries[i].Name = tarFile.entries[j].Name => i = j

-----------------------------------------------------------------------------
(* C4 *)

\* C4: every descriptor a successful OCI-layout Save emits (the config and
\* layer descriptors of the manifest, the manifest descriptor of index.json)
\* names an entry blobs/sha256/<hex>; the content of an entry of that name
\* hashes to the descriptor's digest, its header size is the descriptor's
\* size and the number of bytes written, and its mode is 0644.
C4_DescriptorsNameTheirBlobs ==
    SavedOCI =>
        /\ Len(ManifestLayers(SavedManifest(tarFile))) = Len(img.layers)
        /\ \A d \in Descriptors(tarFile) :
              /\ EntriesNamed(tarFile, BlobName(d.Digest.Hex)) # {}
              /\ \A i \in EntriesNamed(tarFile, BlobName(d.Digest.Hex)) :
                    LET e == tarFile.entries[i] IN
                    /\ Sum256Hex(e.Content) = d.Digest.Hex
                    /\ d.Digest.Algorithm = "sha256"
                    /\ e.Size = d.Size
                    /\ Len(e.Content) = e.Size
                    /\ e.Mode = 420

\* A successful OCI-layout Save of an image with two different layers: the
\* tarball holds four descriptors.
C4_Witness ==
    /\ SavedOCI
    /\ Len(img.layers) = 2
    /\ Cardinality(Descriptors(tarFile)) = 4

-----------------------------------------------------------------------------
(* C5 *)

\* C5: two successive successful Saves with no mutation between them yield
\* the same canonical digest, whatever time passes between them.
C5_SaveIdempotent ==
    Len(saves) = 2 => saves[1].digest = saves[2].digest

\* Two successive successful Saves of an image with a layer, the second at a
\* later time than the first.
C5_Witness ==
    /\ Len(saves) = 2
    /\ saves[1].at < saves[2].at
    /\ Len(img.layers) >= 1
    /\ SavedOCI

-----------------------------------------------------------------------------
(* C6 *)

\* C6: after a successful Save of an image opened from an existing image, the
\* created time of the saved config is later than that of the image it was
\* opened from.
C6_CreatedAdvances ==
    (SavedOK /\ registry.found) =>
        CreatedOf(SavedConfig(tarFile)) > registry.created

-----------------------------------------------------------------------------
(* C7 *)

\* C7: a Save, successful or failed at any step, leaves the in-memory image
\* (its name, its config and its layer stack) as it was.  A step that ends
\* with Save as the last call is a Save, or the clock ticking after one.
C7_SaveLeavesImage ==
    [][lastOp'.op = "Save" => img' = img]_vars

\* A Save of an image with a layer that failed after it created the file.
C7_Witness ==
    /\ lastOp.op = "Save"
    /\ lastOp.err # ""
    /\ tarFile.exists
    /\ ~tarFile.closed
    /\ tarFile.entries # <<>>
    /\ Len(img.layers) >= 1

-----------------------------------------------------------------------------
(* C9 *)

\* C9: a successful Save(additionalNames...) records the image under Name()
\* and under every additional name, in the Docker and in the OCI layout.
C9_SavedUnderEveryName ==
    SavedOK =>
        /\ img.name \in RecordedNames(tarFile)
        /\ \A i \in 1..Len(lastOp.args) :
              Vocabulary[lastOp.args[i]] \in RecordedNames(tarFile)

-----------------------------------------------------------------------------
(* C8 *)

\* The operations of the Image contract.
ContractOps ==
    { "Name", "Rename", "Label", "SetLabel", "Env", "SetEnv", "SetEntrypoint",
      "SetCmd", "SetWorkingDir", "Rebase", "AddLayer", "AddLayerWithDiffID",
      "ReuseLayer", "TopLayer", "GetLayer", "Found", "Delete", "CreatedAt",
      "OS", "OSVersion", "Architecture" }

Strings(tokens) == [i \in 1..Len(tokens) |-> Vocabulary[tokens[i]]]

\* The operation on the registry-backed image.
RemoteCall(op, args, image, backend) ==
    CASE op = "Name"               -> RemoteName(image)
      [] op = "Rename"             -> RemoteRename(image, Vocabulary[args[1]])
      [] op = "Label"              -> RemoteLabel(image, Vocabulary[args[1]])
      [] op = "SetLabel"           -> RemoteSetLabel(image, Vocabulary[args[1]], Vocabulary[args[2]])
      [] op = "Env"                -> RemoteEnv(image, Vocabulary[args[1]])
      [] op = "SetEnv"             -> RemoteSetEnv(image, Vocabulary[args[1]], Vocabulary[args[2]])
      [] op = "SetEntrypoint"      -> RemoteSetEntrypoint(image, Strings(args))
      [] op = "SetCmd"             -> RemoteSetCmd(image, Strings(args))
      [] op = "SetWorkingDir"      -> RemoteSetWorkingDir(image, Vocabulary[args[1]])
      [] op = "Rebase"             -> RemoteRebase(image, args[1], NewBaseImage)
      [] op = "AddLayer"           -> RemoteAddLayer(image, Vocabulary[args[1]])
      [] op = "AddLayerWithDiffID" -> RemoteAddLayerWithDiffID(image, Vocabulary[args[1]], args[2])
      [] op = "ReuseLayer"         -> RemoteReuseLayer(image, args[1])
      [] op = "TopLayer"           -> RemoteTopLayer(image)
      [] op = "GetLayer"           -> RemoteGetLayer(image, args[1])
      [] op = "Found"              -> RemoteFound(image, backend)
      [] op = "Delete"             -> RemoteDelete(image)
      [] op = "CreatedAt"          -> RemoteCreatedAt(image, backend)
      [] op = "OS"                 -> RemoteOS(image)
      [] op = "OSVersion"          -> RemoteOSVersion(image)
      [] op = "Architecture"       -> RemoteArchitecture(image)

\* C8: every call of an operation of the Image contract on the tarball-backed
\* image returns, without a panic, the value and the error the operation
\* returns on the registry-backed image, and leaves the image as that
\* operation leaves it.
C8_SameAsRegistryImage ==
    [][(lastOp'.op \in ContractOps /\ now' = now) =>
          /\ ~lastOp'.panicked
          /\ LET r == RemoteCall(lastOp'.op, lastOp'.args, img, registry) IN
             /\ lastOp'.val = r.val
             /\ lastOp'.err = r.err
             /\ img' = r.image]_vars

-----------------------------------------------------------------------------
(* C10 *)

\* C10: on an image that was found, a Label(k) that follows a SetLabel(k, v)
\* returns v with no error and no panic, and a SetLabel(k, v) leaves the
\* label of every other key as it was.
C10_SetLabelThenLabel ==
    [][/\ (/\ lastOp.op = "SetLabel"
           /\ lastOp'.op = "Label"
           /\ lastOp'.args[1] = lastOp.args[1]
           /\ img.found)
          => (/\ ~lastOp'.panicked
              /\ lastOp'.err = ""
              /\ lastOp'.val = << lastOp.args[2] >>)
       /\ (lastOp'.op = "SetLabel" /\ now' = now)
          => \A k \in (DOMAIN img.config.labels) \ {Vocabulary[lastOp'.args[1]]} :
                /\ k \in DOMAIN img'.config.labels
                /\ img'.config.labels[k] = img.config.labels[k]]_vars

-----------------------------------------------------------------------------
(* C11 *)

\* The operations that change the layer stack.
LayerOps == {"AddLayer", "AddLayerWithDiffID", "ReuseLayer", "Rebase"}

\* rootfs.diff_ids lists the diff ids of the layers, in the order of the stack.
DiffIDsAligned(image) ==
    /\ Len(image.config.diffIDs) = Len(image.layers)
    /\ \A i \in 1..Len(image.layers) :
          image.config.diffIDs[i] = DiffID(image.layers[i])

-----------------------------------------------------------------------------
(* C12 *)

\* The layers of image above the lowest layer whose diff id is oldTop.
LayersAbove(image, oldTop) ==
    LET at == {k \in 1..Len(image.layers) : DiffID(image.layers[k]).Hex = oldTop}
    IN  SubSeq(image.layers, Lowest(at) + 1, Len(image.layers))

\* The digests of the layers the manifest of a saved tarball lists: the
\* layer descriptors of the manifest blob (OCI), or the Layers of
\* manifest.json (Docker).
SavedLayerDigests(file) ==
    IF layoutImpl = OCIImageLayout
    THEN LET l == ManifestLayers(SavedManifest(file))
         IN  [i \in 1..Len(l) |-> l[i].Digest.Hex]
    ELSE LET raw == ContentOf(file, << T("manifest.json") >>)
         IN  SubSeq(raw, 10, Len(raw) - 1)

\* C12: a Rebase(oldTop, newBase) on an image with a layer of diff id oldTop
\* returns without a panic or an error and leaves the layers of newBase
\* followed by the layers that were above oldTop; and the manifest of a
\* successful Save lists the layers of the image, in their order.
C12_RebaseThenSave ==
    /\ [][(/\ lastOp'.op = "Rebase"
           /\ now' = now
           /\ \E k \in 1..Len(img.layers) : DiffID(img.layers[k]).Hex = lastOp'.args[1])
          => /\ ~lastOp'.panicked
             /\ lastOp'.err = ""
             /\ img'.layers = NewBaseImage.layers \o LayersAbove(img, lastOp'.args[1])]_vars
    /\ [](SavedOK =>
            SavedLayerDigests(tarFile)
                = [i \in 1..Len(img.layers) |-> Digest(img.layers[i]).Hex])

-----------------------------------------------------------------------------
(* C13 *)

\* The layers of the previous image with the given diff id.
PreviousLayers(diffID) ==
    {i \in 1..Len(PreviousImage.layers) : DiffID(PreviousImage.layers[i]).Hex = diffID}

\* C13: a call of ReuseLayer(diffID) returns, without a panic: the error
\* "failed to get layers for previous image with repo name ..." when the
\* previous image does not resolve; the error "previous image did not have
\* layer with sha ..." when it resolves and has no layer with that diff id;
\* and otherwise no error, with exactly that layer of the previous image
\* added on top of the stack.
C13_ReuseLayer ==
    [][(lastOp'.op = "ReuseLayer" /\ now' = now) =>
          /\ ~lastOp'.panicked
          /\ IF ~img.found
             THEN lastOp'.err = PreviousImageUnreachable /\ img' = img
             ELSE IF PreviousLayers(lastOp'.args[1]) = {}
             THEN lastOp'.err = LayerNotInPreviousImage /\ img' = img
             ELSE /\ lastOp'.err = ""
                  /\ img'.layers =
                        Append(img.layers,
                               PreviousImage.layers[Lowest(PreviousLayers(lastOp'.args[1]))])]_vars

-----------------------------------------------------------------------------
(* C14 *)

\* C14: a Save that returns an error, at whichever step, leaves the file at
\* tarballPath as it was before the call: a tarball that was there is not
\* truncated, and no partly written tarball is left.
C14_FailedSaveLeavesFile ==
    [][(lastOp'.op = "Save" /\ lastOp'.err # "" /\ now' = now) => tarFile' = tarFile]_vars

=============================================================================
